---- MODULE Spec2Model ----
(***************************************************************************)
(* Model of twi.py: the rate-limited, cached data-access layer over the    *)
(* two remote sheets (twi_users, twi_dataset) and the Streamlit script     *)
(* runs (registration, login, logout, data submission, admin deletes)      *)
(* that call into it.                                                      *)
(*                                                                         *)
(* Time is counted in ticks of half a second (the smallest sleep of the    *)
(* program, time.sleep(0.5)).  The program only ever uses the difference   *)
(* between time.time() and a recorded timestamp, so the model keeps, for   *)
(* every recorded timestamp, the time elapsed since it, saturating at the  *)
(* threshold it is compared with.                                          *)
(*                                                                         *)
(* Text is a sequence of one-character strings, so that str.lower() and    *)
(* str.strip() are computed character by character.                        *)
(***************************************************************************)
EXTENDS Integers, Sequences, FiniteSets, TLC

VARIABLES
    usersTable,     \* data rows of sheet "twi_users" (row i of the model is sheet row i+1)
    datasetTable,   \* data rows of sheet "twi_dataset"
    cache,          \* st.cache_data entries of get_users_data / get_dataset_data
    since_called,   \* per rate_limit wrapper: time.time() - wrapper.last_called
    session,        \* st.session_state: logged_in, username, is_admin
    rerun,          \* st.rerun() was called: the script runs again before any input
    dc,             \* position of a running delete_contributions_by_username
    since_remote,   \* history: time since the last outbound call to the remote store
    window,         \* history: per collection, the first read of the current ttl window
    dirty,          \* history: per collection, a write succeeded and no read followed yet
    steps,          \* history: the number of steps taken so far
    last            \* history: what the last script run (or step) did

vars == <<usersTable, datasetTable, cache, since_called, session, rerun, dc,
          since_remote, window, dirty, steps, last>>

----------------------------------------------------------------------------
(* Bounds of the model *)

MaxUsers == 2
MaxEntries == 3
MaxSteps == 5

(* Program constants, in ticks of half a second *)

TTL_USERS == 60
TTL_DATASET == 30
TIME_WINDOW == 4
DELETE_SLEEP == 1
SUCCESS_SLEEP == 4
MIN_PASSWORD == 4

----------------------------------------------------------------------------
(* Text *)

LowerCase ==
    [c \in {"A", "D", "H", "I", "M", "N"} |->
        CASE c = "A" -> "a" [] c = "D" -> "d" [] c = "H" -> "h"
          [] c = "I" -> "i" [] c = "M" -> "m" [] c = "N" -> "n"]

\* str.lower()
lower(s) == [i \in DOMAIN s |-> IF s[i] \in DOMAIN LowerCase THEN LowerCase[s[i]] ELSE s[i]]

IsSpace(c) == c \in {" ", "\t", "\n"}

RECURSIVE lstrip(_)
lstrip(s) == IF s # <<>> /\ IsSpace(Head(s)) THEN lstrip(Tail(s)) ELSE s

RECURSIVE rstrip(_)
rstrip(s) == IF s # <<>> /\ IsSpace(s[Len(s)]) THEN rstrip(SubSeq(s, 1, Len(s) - 1)) ELSE s

\* str.strip()
strip(s) == rstrip(lstrip(s))

Min(a, b) == IF a < b THEN a ELSE b

\* the texts the inputs are drawn from
empty == <<>>
blank == <<" ">>
ama == <<"a", "m", "a">>
AMA == <<"A", "M", "A">>
padAMA == <<" ", "A", "M", "A", " ">>
kofi == <<"k", "o", "f", "i">>
admin == <<"a", "d", "m", "i", "n">>
padADMIN == <<"A", "D", "M", "I", "N", " ">>
fullname == <<"n">>
pass == <<"p", "a", "s", "s">>
padpass == <<" ", "p", "a", "s", "s">>
abc == <<"a", "b", "c">>
nope == <<"n", "o", "p", "e">>
pin1345 == <<"1", "3", "4", "5">>
da == <<"d", "a">>
padDA == <<" ", "D", "A", " ">>
hi == <<"h", "i">>
HI == <<"H", "I">>
today == <<"d">>

----------------------------------------------------------------------------
(* The two sheets.  A data row is the record get_all_records() builds from *)
(* the header row; append_row writes the fields in the column order.       *)

Colls == {"users", "dataset"}
Funcs == {"get_users_data", "get_dataset_data", "add_user_data", "add_dataset_entry",
          "delete_user_by_username", "delete_contributions_by_username"}

UserRow(name, username, password) ==
    [name |-> name, username |-> username, password |-> password]

EntryRow(date, twi, english, username) ==
    [date |-> date, ewe |-> twi, english |-> english, username |-> username]

ttl(coll) == IF coll = "users" THEN TTL_USERS ELSE TTL_DATASET

Table(w, coll) == IF coll = "users" THEN w.usersTable ELSE w.datasetTable

SetTable(w, coll, t) ==
    IF coll = "users" THEN [w EXCEPT !.usersTable = t] ELSE [w EXCEPT !.datasetTable = t]

\* variant: the index taken as an index of the data rows
RemoveRow_data_index(t, i) == SubSeq(t, 1, i - 1) \o SubSeq(t, i + 1, Len(t))

\* sheet.delete_rows(i) on a table of data rows: sheet row i is data row i - 1
RemoveRow(t, i) == SubSeq(t, 1, i - 2) \o SubSeq(t, i, Len(t))

----------------------------------------------------------------------------
(* The world an operation runs in: the remote sheets, the process-wide     *)
(* cache and limiter state, and the log of what the current script run     *)
(* has done so far.  Operations take a world and return the world after.   *)

\* fetched (history): the stored value is what a get_all_records() returned,
\* not the [] of the except branch
EmptyEntry == [valid |-> FALSE, value |-> <<>>, age |-> 0, fetched |-> FALSE]
NoWindow == [open |-> FALSE, first |-> <<>>, fetched |-> FALSE, age |-> 0]

World ==
    [usersTable |-> usersTable, datasetTable |-> datasetTable, cache |-> cache,
     since_called |-> since_called, since_remote |-> since_remote,
     window |-> window, dirty |-> dirty,
     calls |-> <<>>, reads |-> <<>>, limits |-> <<>>,
     body_gap |-> TIME_WINDOW, phase |-> "page", h0 |-> cache, ok |-> TRUE, ret |-> <<>>]

\* a cache entry d ticks later: st.cache_data drops an entry once it is ttl old
expire(e, coll, d) ==
    IF e.valid /\ e.age + d < ttl(coll) THEN [e EXCEPT !.age = @ + d] ELSE EmptyEntry

expireWindow(x, coll, d) ==
    IF x.open /\ x.age + d < ttl(coll) THEN [x EXCEPT !.age = @ + d] ELSE NoWindow

\* d ticks pass (time.sleep(d), or the user waiting)
Elapse(w, d) ==
    [w EXCEPT !.cache = [c \in Colls |-> expire(w.cache[c], c, d)],
              !.since_called = [f \in Funcs |-> Min(TIME_WINDOW, w.since_called[f] + d)],
              !.since_remote = Min(TIME_WINDOW, w.since_remote + d),
              !.window = [c \in Colls |-> expireWindow(w.window[c], c, d)]]

----------------------------------------------------------------------------
(* rate_limit: the wrapper of one decorated function                       *)

\* variant: the wrapper sleeps twice the time that is left of the window
sleep_time_doubled(time_since_last_call) ==
    IF time_since_last_call < TIME_WINDOW THEN 2 * (TIME_WINDOW - time_since_last_call)
    ELSE 0

\* variant: the wrapper never sleeps
sleep_time_none(time_since_last_call) == 0

\* time.sleep(time_window - time_since_last_call) when the last call is too recent
sleep_time(time_since_last_call) ==
    IF time_since_last_call < TIME_WINDOW THEN TIME_WINDOW - time_since_last_call ELSE 0

rate_limit(w, fn) ==
    LET time_since_last_call == w.since_called[fn]
        slept == sleep_time(time_since_last_call)
        w1 == Elapse(w, slept)
    IN  [w1 EXCEPT !.since_called[fn] = 0,
                   !.body_gap = w1.since_called[fn],
                   !.limits = Append(@, [fn |-> fn, slept |-> slept,
                                         gap |-> w1.since_called[fn]])]

----------------------------------------------------------------------------
(* Outbound calls to the remote store (gspread).  fail says the call       *)
(* raises (network, auth, quota).                                          *)

RemoteCall(w, api, coll, fn, ok) ==
    [w EXCEPT !.calls = Append(@, [api |-> api, sheet |-> coll, fn |-> fn,
                                   gap |-> w.since_remote, body_gap |-> w.body_gap,
                                   ok |-> ok, phase |-> w.phase]),
              !.since_remote = 0,
              !.ok = ok]

get_all_records(w, coll, fn, fail) ==
    [RemoteCall(w, "get_all_records", coll, fn, ~fail) EXCEPT
        !.ret = IF fail THEN <<>> ELSE Table(w, coll)]

append_row(w, coll, fn, row, fail) ==
    LET w1 == RemoteCall(w, "append_row", coll, fn, ~fail)
    IN  IF fail THEN w1 ELSE SetTable(w1, coll, Append(Table(w1, coll), row))

\* a row index past the data rows names a blank row of the grid
delete_rows(w, coll, fn, i, fail) ==
    LET w1 == RemoteCall(w, "delete_rows", coll, fn, ~fail)
    IN  IF fail \/ i - 1 > Len(Table(w1, coll)) THEN w1
        ELSE SetTable(w1, coll, RemoveRow(Table(w1, coll), i))

----------------------------------------------------------------------------
(* Cached reads: st.cache_data(ttl) around rate_limit around the body      *)

\* variant: the cache is never consulted
cache_never_hit(w, coll) == FALSE

cache_hit(w, coll) == w.cache[coll].valid

NoteRead(w, w0, coll, remote, slept, value) ==
    [w EXCEPT !.reads = Append(@, [coll |-> coll, remote |-> remote, slept |-> slept,
                                   ok |-> w.ok,
                                   in_window |-> w0.window[coll].open,
                                   same_as_first |-> value = w0.window[coll].first,
                                   first_fetched |-> w0.window[coll].fetched,
                                   entry_fetched |-> w0.cache[coll].fetched,
                                   after_write |-> w0.dirty[coll],
                                   is_current |-> value = Table(w, coll),
                                   phase |-> w.phase]),
              !.dirty[coll] = FALSE,
              !.window[coll] = IF remote THEN [open |-> TRUE, first |-> value,
                                              fetched |-> w.ok, age |-> 0]
                               ELSE @,
              !.ret = value]

cache_data(w, coll, fn, fail) ==
    IF cache_hit(w, coll)
    THEN NoteRead([w EXCEPT !.ok = TRUE], w, coll, FALSE, 0, w.cache[coll].value)
    ELSE LET w1 == rate_limit(w, fn)
             w2 == get_all_records(w1, coll, fn, fail)
             value == IF w2.ok THEN w2.ret ELSE <<>>
             w3 == [w2 EXCEPT !.cache[coll] = [valid |-> TRUE, value |-> value, age |-> 0,
                                                fetched |-> w2.ok]]
         IN  NoteRead(w3, w, coll, TRUE, w1.limits[Len(w1.limits)].slept, value)

get_users_data(w, fail) == cache_data(w, "users", "get_users_data", fail)

get_dataset_data(w, fail) == cache_data(w, "dataset", "get_dataset_data", fail)

\* variant: the write does not invalidate
clear_forgotten(w, coll) == w

\* variant: a write invalidates both cached reads
clear_every(w, coll) == [w EXCEPT !.cache = [c \in Colls |-> EmptyEntry]]

\* get_users_data.clear() / get_dataset_data.clear()
clear(w, coll) == [w EXCEPT !.cache[coll] = EmptyEntry]

----------------------------------------------------------------------------
(* Rate-limited write operations                                           *)

\* history: a write operation of this process on coll starts / has succeeded
NoteWrite(w, coll) == [w EXCEPT !.window[coll] = NoWindow]
NoteWritten(w, coll) == [w EXCEPT !.dirty[coll] = TRUE]

add_row(w, coll, fn, row, fail) ==
    LET w1 == rate_limit(NoteWrite(w, coll), fn)
        w2 == append_row(w1, coll, fn, row, fail)
    IN  IF w2.ok THEN [NoteWritten(clear(w2, coll), coll) EXCEPT !.ret = TRUE]
        ELSE [w2 EXCEPT !.ret = FALSE]

add_user_data(w, user_data, fail) == add_row(w, "users", "add_user_data", user_data, fail)

add_dataset_entry(w, entry_data, fail) ==
    add_row(w, "dataset", "add_dataset_entry", entry_data, fail)

\* variant: the usernames compared as they are written
RECURSIVE matching_rows_exact(_, _, _)
matching_rows_exact(rows, username, i) ==
    IF i > Len(rows) THEN <<>>
    ELSE (IF rows[i].username = username THEN <<i + 1>> ELSE <<>>)
         \o matching_rows_exact(rows, username, i + 1)

\* the sheet rows (2 = first data row) whose username matches, in ascending order
RECURSIVE matching_rows(_, _, _)
matching_rows(rows, username, i) ==
    IF i > Len(rows) THEN <<>>
    ELSE (IF lower(rows[i].username) = lower(username) THEN <<i + 1>> ELSE <<>>)
         \o matching_rows(rows, username, i + 1)

delete_user_by_username(w, username_to_delete, failFetch, failDelete) ==
    LET fn == "delete_user_by_username"
        w1 == rate_limit(NoteWrite(w, "users"), fn)
        w2 == get_all_records(w1, "users", fn, failFetch)
        found == matching_rows(w2.ret, username_to_delete, 1)
        w3 == delete_rows(w2, "users", fn, found[1], failDelete)
    IN  IF ~w2.ok THEN [w2 EXCEPT !.ret = FALSE]
        ELSE IF found = <<>> THEN [w2 EXCEPT !.ret = FALSE]
        ELSE IF ~w3.ok THEN [w3 EXCEPT !.ret = FALSE]
        ELSE [NoteWritten(clear(w3, "users"), "users") EXCEPT !.ret = TRUE]

\* variant: rows deleted top to bottom
not_reversed(s) == s

\* for row_index in reversed(rows_to_delete)
RECURSIVE reversed(_)
reversed(s) == IF s = <<>> THEN <<>> ELSE Append(reversed(Tail(s)), Head(s))

IdleDC == [pc |-> "idle", username |-> <<>>, pending |-> <<>>, count |-> 0,
           body_gap |-> TIME_WINDOW, original |-> <<>>, issued |-> <<>>,
           interfered |-> FALSE, removed |-> <<>>, others_deleted |-> FALSE,
           appended |-> <<>>]

\* delete_contributions_by_username up to its loop: the fetch and rows_to_delete
delete_contributions_fetch(w, username, fail) ==
    LET fn == "delete_contributions_by_username"
        w1 == rate_limit(NoteWrite(w, "dataset"), fn)
    IN  get_all_records(w1, "dataset", fn, fail)

\* history: the row of table before that table after has lost, if any
Missing(before, after) ==
    LET Without(k) == SubSeq(before, 1, k - 1) \o SubSeq(before, k + 1, Len(before))
        at == {k \in 1..Len(before) : after = Without(k)}
    IN  IF at = {} THEN <<>> ELSE <<before[CHOOSE k \in at : TRUE]>>

\* variant: no delay between deletions
delete_contributions_step_nosleep(w, row_index, fail) ==
    delete_rows(w, "dataset", "delete_contributions_by_username", row_index, fail)

\* one turn of the loop: delete_rows(row_index); time.sleep(0.5)
delete_contributions_step(w, row_index, fail) ==
    LET w1 == delete_rows(w, "dataset", "delete_contributions_by_username", row_index, fail)
    IN  IF w1.ok THEN Elapse(w1, DELETE_SLEEP) ELSE w1

\* after the loop: get_dataset_data.clear(); return len(rows_to_delete)
delete_contributions_end(w, count) ==
    [NoteWritten(clear(w, "dataset"), "dataset") EXCEPT !.ret = count]

----------------------------------------------------------------------------
(* One run of the script, from the top to its end or to st.rerun()         *)

NoSession == [logged_in |-> FALSE, username |-> <<>>, is_admin |-> FALSE]

\* the forms' handlers start here: what follows is the handler's own doing
BeginHandler(w) == [w EXCEPT !.phase = "handler", !.h0 = w.cache]

\* the run ends: the state it leaves.  Runs are counted up to MaxSteps; a bulk
\* delete that has started is let run to its end.
Commit(w, s, rr, d, op, msg, info) ==
    /\ steps < MaxSteps \/ (dc.pc = "deleting" /\ op = "delete_contributions")
    /\ Len(w.usersTable) <= MaxUsers
    /\ Len(w.datasetTable) <= MaxEntries
    /\ steps' = Min(MaxSteps, steps + 1)
    /\ usersTable' = w.usersTable
    /\ datasetTable' = w.datasetTable
    /\ cache' = w.cache
    /\ since_called' = w.since_called
    /\ since_remote' = w.since_remote
    /\ window' = w.window
    /\ dirty' = w.dirty
    /\ session' = s
    /\ rerun' = rr
    /\ dc' = d
    /\ last' = [op |-> op, msg |-> msg, calls |-> w.calls, reads |-> w.reads,
                limits |-> w.limits, h0 |-> w.h0, info |-> info]

Matches(rows, username) ==
    \E i \in 1..Len(rows) : lower(rows[i].username) = lower(username)

\* lines 194-197 (admin page) and 277-279 (user page): the page's cached reads
PageReads(w, s, failUsers, failDataset) ==
    IF s.logged_in /\ s.is_admin THEN get_dataset_data(get_users_data(w, failUsers), failDataset)
    ELSE IF s.logged_in THEN get_dataset_data(w, failDataset)
    ELSE w

\* a remote call can only fail where one is made: the first cached read of a run
\* calls the remote store only on a miss
MayFail(fail, coll) == fail => ~cache_hit(World, coll)

\* a run with no form submitted and no button pressed (a rerun, a refresh)
PageRun(failUsers, failDataset) ==
    /\ dc.pc = "idle"
    /\ rerun \/ session.logged_in
    /\ IF session.logged_in /\ session.is_admin THEN MayFail(failUsers, "users")
       ELSE ~failUsers /\ (IF session.logged_in THEN MayFail(failDataset, "dataset")
                           ELSE ~failDataset)
    /\ Commit(PageReads(World, session, failUsers, failDataset), session, FALSE, dc,
              "page", "", <<>>)

\* variant: the length of the password is not checked
registration_error_any_length(name, username, password, repassword) ==
    IF name = <<>> \/ username = <<>> \/ password = <<>> THEN "fill_fields"
    ELSE IF password # repassword THEN "mismatch"
    ELSE ""

\* lines 370-375: the message of the first check the form fails, "" when it passes
registration_error(name, username, password, repassword) ==
    IF name = <<>> \/ username = <<>> \/ password = <<>> THEN "fill_fields"
    ELSE IF password # repassword THEN "mismatch"
    ELSE IF Len(password) < MIN_PASSWORD THEN "too_short"
    ELSE ""

\* the Registration form, lines 360-389
Register(name0, username0, password0, repassword0, failUsers, failAdd) ==
    /\ dc.pc = "idle" /\ ~rerun /\ ~session.logged_in
    /\ MayFail(failUsers, "users")
    /\ LET name == strip(name0)
           username == strip(username0)
           password == strip(password0)
           repassword == strip(repassword0)
           w0 == BeginHandler(World)
           error == registration_error(name, username, password, repassword)
           info == [name |-> name, username |-> username, password |-> password,
                    repassword |-> repassword,
                    in_remote |-> Matches(usersTable, username)]
           w1 == get_users_data(w0, failUsers)
           users == w1.ret
           username_exists == Matches(users, username)
           w2 == add_user_data(w1, UserRow(name, username, password), failAdd)
       IN  IF error # ""
           THEN ~failUsers /\ ~failAdd
                /\ Commit(w0, session, FALSE, dc, "register", error, info)
           ELSE IF username_exists
           THEN ~failAdd /\ Commit(w1, session, FALSE, dc, "register", "exists", info)
           ELSE Commit(w2, session, FALSE, dc, "register",
                       IF w2.ret THEN "registered" ELSE "reg_failed", info)

\* variant: the administrator's username compared as typed
is_admin_login_exact(username100, password100) ==
    username100 = admin /\ password100 = pin1345

\* line 404: the hardcoded administrator credential
is_admin_login(username100, password100) ==
    lower(username100) = admin /\ password100 = pin1345

\* variant: the username compared as typed
credentials_match_exact(user, username100, password100) ==
    user.username = username100 /\ user.password = password100

\* lines 415-416
credentials_match(user, username100, password100) ==
    lower(user.username) = lower(username100) /\ user.password = password100

\* the session a successful login of record user sets, lines 418-420
user_session(user) == [logged_in |-> TRUE, username |-> user.username, is_admin |-> FALSE]

\* variant: the username is not set
admin_session_unnamed == [logged_in |-> TRUE, username |-> <<>>, is_admin |-> TRUE]

\* the session the administrator's login sets, lines 405-407
admin_session == [logged_in |-> TRUE, username |-> admin, is_admin |-> TRUE]

\* the Login form, lines 397-425
Login(username0, password0, failUsers) ==
    /\ dc.pc = "idle" /\ ~rerun /\ ~session.logged_in
    /\ MayFail(failUsers, "users")
    /\ LET username100 == strip(username0)
           password100 == strip(password0)
           w0 == BeginHandler(World)
           w1 == get_users_data(w0, failUsers)
           users == w1.ret
           hits == {i \in 1..Len(users) : credentials_match(users[i], username100, password100)}
           first == CHOOSE i \in hits : \A j \in hits : i <= j
           after == /\ last.op = "register" /\ last.msg = "registered"
                    /\ last.info.username = username100
                    /\ last.info.password = password100
           info(us) == [username |-> username100, password |-> password100,
                        users |-> us, after_register |-> after, before |-> session]
       IN  IF username100 = <<>> \/ password100 = <<>>
           THEN ~failUsers
                /\ Commit(w0, session, FALSE, dc, "login", "enter_both", info(<<>>))
           ELSE IF is_admin_login(username100, password100)
           THEN ~failUsers
                /\ Commit(w0, admin_session, TRUE, dc, "login", "admin_login", info(<<>>))
           ELSE IF hits # {}
           THEN Commit(w1, user_session(users[first]), TRUE, dc, "login", "login_ok",
                       info(users))
           ELSE Commit(w1, session, FALSE, dc, "login", "wrong_login", info(users))

\* the admin page's Logout button, lines 188-192 (before the page's reads)
LogoutAdmin ==
    /\ dc.pc = "idle" /\ ~rerun /\ session.logged_in /\ session.is_admin
    /\ Commit(BeginHandler(World), NoSession, TRUE, dc, "logout", "admin", <<>>)

\* the user page's Logout button, lines 290-294 (after the page's read)
LogoutUser(failDataset) ==
    /\ dc.pc = "idle" /\ ~rerun /\ session.logged_in /\ ~session.is_admin
    /\ MayFail(failDataset, "dataset")
    /\ Commit(BeginHandler(PageReads(World, session, FALSE, failDataset)), NoSession,
              TRUE, dc, "logout", "user", <<>>)

\* variant: the duplicate check not scoped to the submitting user
is_duplicate_any_user(row, twi, english, username) ==
    /\ lower(strip(row.ewe)) = lower(strip(twi))
    /\ lower(strip(row.english)) = lower(strip(english))

\* lines 319-321
is_duplicate(row, twi, english, username) ==
    /\ lower(strip(row.ewe)) = lower(strip(twi))
    /\ lower(strip(row.english)) = lower(strip(english))
    /\ lower(row.username) = lower(username)

\* the data_collection form, lines 312-342
SubmitEntry(twi, english, failDataset, failAdd) ==
    /\ dc.pc = "idle" /\ ~rerun /\ session.logged_in /\ ~session.is_admin
    /\ MayFail(failDataset, "dataset")
    /\ LET w1 == PageReads(World, session, FALSE, failDataset)
           dataset == w1.ret
           w2 == BeginHandler(w1)
           duplicate_found ==
               \E i \in 1..Len(dataset) :
                   is_duplicate(dataset[i], twi, english, session.username)
           entry_data == EntryRow(today, strip(twi), strip(english), session.username)
           w3 == add_dataset_entry(w2, entry_data, failAdd)
           info == [twi |-> twi, english |-> english, username |-> session.username,
                    dataset |-> dataset, before |-> datasetTable]
       IN  IF strip(twi) = <<>> \/ strip(english) = <<>>
           THEN ~failAdd /\ Commit(w2, session, FALSE, dc, "submit", "fill_both", info)
           ELSE IF duplicate_found
           THEN ~failAdd /\ Commit(w2, session, FALSE, dc, "submit", "dup_entry", info)
           ELSE IF w3.ret
           THEN Commit(Elapse(w3, SUCCESS_SLEEP), session, TRUE, dc, "submit",
                       "submitted", info)
           ELSE Commit(w3, session, FALSE, dc, "submit", "submit_failed", info)

\* the Delete User button, lines 243-254; k picks the selectbox option
DeleteUser(k, failUsers, failDataset, failFetch, failDelete) ==
    /\ dc.pc = "idle" /\ ~rerun /\ session.logged_in /\ session.is_admin
    /\ MayFail(failUsers, "users")
    /\ failFetch => ~failDelete
    /\ LET w1 == get_users_data(World, failUsers)
           users == w1.ret
           w2 == BeginHandler(get_dataset_data(w1, failDataset))
           user_to_delete == users[k].username
           w3 == delete_user_by_username(w2, user_to_delete, failFetch, failDelete)
           info == [username |-> user_to_delete, before |-> usersTable]
       IN  /\ k \in 1..Len(users)
           /\ IF w3.ret
              THEN Commit(Elapse(w3, SUCCESS_SLEEP), session, TRUE, dc, "delete_user",
                          "user_deleted", info)
              ELSE Commit(w3, session, FALSE, dc, "delete_user", "delete_failed", info)

\* what the page does with deleted_count, lines 266-271
AfterContributions(w, deleted_count, info) ==
    Commit(Elapse(w, SUCCESS_SLEEP), session, TRUE, IdleDC, "delete_contributions",
           IF deleted_count > 0 THEN "contrib_deleted" ELSE "contrib_none", info)

ContribInfo(d, result, raised) ==
    [username |-> d.username, original |-> d.original, issued |-> d.issued,
     interfered |-> d.interfered, count |-> result, raised |-> raised,
     removed |-> d.removed, others_deleted |-> d.others_deleted,
     appended |-> d.appended]

\* the Delete All Contributions button, lines 258-271, up to the first delete_rows
DeleteContributions(k, failUsers, failDataset, failFetch) ==
    /\ dc.pc = "idle" /\ ~rerun /\ session.logged_in /\ session.is_admin
    /\ MayFail(failUsers, "users")
    /\ LET w1 == PageReads(World, session, failUsers, failDataset)
           dataset == w1.ret
           contrib_user == dataset[k].username
           w2 == delete_contributions_fetch(BeginHandler(w1), contrib_user, failFetch)
           dataset_rows == w2.ret
           rows_to_delete == matching_rows(dataset_rows, contrib_user, 1)
           d == [pc |-> "deleting", username |-> contrib_user,
                 pending |-> reversed(rows_to_delete), count |-> Len(rows_to_delete),
                 body_gap |-> w2.body_gap, original |-> dataset_rows, issued |-> <<>>,
                 interfered |-> FALSE, removed |-> <<>>, others_deleted |-> FALSE,
           appended |-> <<>>]
       IN  /\ k \in 1..Len(dataset)
           /\ IF ~w2.ok
              THEN AfterContributions(w2, 0, ContribInfo(d, 0, TRUE))
              ELSE IF rows_to_delete = <<>>
              THEN AfterContributions(delete_contributions_end(w2, 0), 0,
                                      ContribInfo(d, 0, FALSE))
              ELSE Commit(w2, session, FALSE, d, "delete_contributions", "fetched",
                          ContribInfo(d, 0, FALSE))

\* the next delete_rows of the running delete_contributions_by_username
DeleteNextRow(fail) ==
    /\ dc.pc = "deleting"
    /\ LET w0 == [World EXCEPT !.phase = "handler", !.body_gap = dc.body_gap]
           row_index == Head(dc.pending)
           w1 == delete_contributions_step(w0, row_index, fail)
           gone == Missing(datasetTable, w1.datasetTable)
           d == [dc EXCEPT !.pending = Tail(@), !.issued = Append(@, row_index),
                           !.removed = @ \o gone]
       IN  IF ~w1.ok
           THEN AfterContributions(w1, 0, ContribInfo(d, 0, TRUE))
           ELSE IF d.pending = <<>>
           THEN AfterContributions(delete_contributions_end(w1, dc.count), dc.count,
                                   ContribInfo(d, dc.count, FALSE))
           ELSE Commit(w1, session, FALSE, d, "delete_contributions", "deleting",
                       ContribInfo(d, 0, FALSE))

----------------------------------------------------------------------------
(* The rest of the world: time passing between a user's inputs, and other  *)
(* instances of the application writing to the same sheets.                *)

Quiet(w, d, op) ==
    Commit(w, session, rerun, d, op, "", <<>>)

Think(d) ==
    /\ dc.pc = "idle" /\ ~rerun
    /\ Quiet(Elapse(World, d), dc, "think")

\* history: what other writers did between the fetch and the last delete_rows of
\* a running bulk delete
Interfered == IF dc.pc = "deleting" THEN [dc EXCEPT !.interfered = TRUE] ELSE dc

OtherAppendUser(row) ==
    /\ Len(usersTable) < MaxUsers
    /\ Quiet([World EXCEPT !.usersTable = Append(@, row)], dc, "other")

OtherAppendEntry(row) ==
    /\ Len(datasetTable) < MaxEntries
    /\ Quiet([World EXCEPT !.datasetTable = Append(@, row)],
             [Interfered EXCEPT !.appended = IF dc.pc = "deleting" THEN Append(@, row) ELSE @],
             "other")

OtherDeleteEntry(i) ==
    /\ i \in 1..Len(datasetTable)
    /\ Quiet([World EXCEPT !.datasetTable = RemoveRow(@, i + 1)],
             [Interfered EXCEPT !.others_deleted = (dc.pc = "deleting")], "other")

----------------------------------------------------------------------------
(* Inputs *)

RegForm(n, u, p, r) == [name |-> n, username |-> u, password |-> p, repassword |-> r]
LoginForm(u, p) == [username |-> u, password |-> p]

\* a valid form for each username, and one form for each way of failing validation
RegForms ==
    {RegForm(fullname, ama, pass, pass), RegForm(fullname, padAMA, padpass, pass),
     RegForm(fullname, admin, pin1345, pin1345),
     RegForm(blank, ama, pass, pass), RegForm(fullname, blank, pass, pass),
     RegForm(fullname, ama, empty, empty), RegForm(fullname, ama, pass, nope),
     RegForm(fullname, ama, abc, abc)}

LoginForms ==
    {LoginForm(ama, pass), LoginForm(padAMA, padpass), LoginForm(ama, nope),
     LoginForm(kofi, pass), LoginForm(admin, pin1345), LoginForm(padADMIN, pin1345),
     LoginForm(admin, pass), LoginForm(blank, pass), LoginForm(ama, empty)}

EntryForm(t, e) == [twi |-> t, english |-> e]

EntryForms ==
    {EntryForm(da, hi), EntryForm(padDA, HI), EntryForm(blank, hi), EntryForm(da, empty)}

Delays == {1, TTL_DATASET}
OtherUsers == {UserRow(fullname, u, pass) : u \in {ama, AMA}}
OtherEntries == {EntryRow(today, da, hi, u) : u \in {ama, AMA, kofi}}

InitCommon ==
    /\ cache = [c \in Colls |-> EmptyEntry]
    /\ since_called = [f \in Funcs |-> TIME_WINDOW]
    /\ session = NoSession
    /\ rerun = FALSE
    /\ dc = IdleDC
    /\ since_remote = TIME_WINDOW
    /\ window = [c \in Colls |-> NoWindow]
    /\ dirty = [c \in Colls |-> FALSE]
    /\ steps = 0
    /\ last = [op |-> "init", msg |-> "", calls |-> <<>>, reads |-> <<>>,
               limits |-> <<>>, h0 |-> cache, info |-> <<>>]

\* a fresh system: both sheets hold their header row only
Init ==
    /\ usersTable = <<>>
    /\ datasetTable = <<>>
    /\ InitCommon

\* the sessions of the application: login, logout, page runs, time passing
NextSession ==
    \/ \E fu, fd \in BOOLEAN : PageRun(fu, fd)
    \/ \E f \in LoginForms, fu \in BOOLEAN : Login(f.username, f.password, fu)
    \/ LogoutAdmin
    \/ \E fd \in BOOLEAN : LogoutUser(fd)
    \/ \E d \in Delays : Think(d)

\* the users sheet: registration, the admin's Delete User, other instances
NextUsers ==
    \/ NextSession
    \/ \E f \in RegForms, fu, fa \in BOOLEAN :
          Register(f.name, f.username, f.password, f.repassword, fu, fa)
    \/ \E k \in 1..MaxUsers, fu, fd, f1, f2 \in BOOLEAN : DeleteUser(k, fu, fd, f1, f2)
    \/ \E row \in OtherUsers : OtherAppendUser(row)

SpecUsers == Init /\ [][NextUsers]_vars

\* the dataset sheet: submission, the admin's bulk delete, other instances
NextDataset ==
    \/ NextSession
    \/ \E f \in EntryForms, fd, fa \in BOOLEAN : SubmitEntry(f.twi, f.english, fd, fa)
    \/ \E k \in 1..MaxEntries, fu, fd, f1 \in BOOLEAN : DeleteContributions(k, fu, fd, f1)
    \/ \E f \in BOOLEAN : DeleteNextRow(f)
    \/ \E row \in OtherEntries : OtherAppendEntry(row)
    \/ \E i \in 1..MaxEntries : OtherDeleteEntry(i)

\* ama and kofi have registered; the dataset sheet is empty, or holds entries
\* submitted earlier (from this and other instances)
InitDataset ==
    /\ usersTable = <<UserRow(fullname, ama, pass), UserRow(fullname, kofi, pass)>>
    /\ datasetTable \in {<<>>,
                          <<EntryRow(today, da, hi, kofi)>>,
                          <<EntryRow(today, da, hi, ama), EntryRow(today, da, hi, kofi),
                            EntryRow(today, da, hi, AMA)>>}
    /\ InitCommon

SpecDataset == InitDataset /\ [][NextDataset]_vars

\* the three forms (Registration, Login, data_collection) where ama and kofi
\* have registered
NextForms ==
    \/ NextSession
    \/ \E f \in RegForms, fu, fa \in BOOLEAN :
          Register(f.name, f.username, f.password, f.repassword, fu, fa)
    \/ \E f \in EntryForms, fd, fa \in BOOLEAN : SubmitEntry(f.twi, f.english, fd, fa)

SpecForms == InitDataset /\ [][NextForms]_vars

\* every write operation of one instance: registration, submission, the admin's
\* two deletes, where ama and kofi have registered
NextWrites ==
    \/ NextSession
    \/ \E f \in RegForms, fu, fa \in BOOLEAN :
          Register(f.name, f.username, f.password, f.repassword, fu, fa)
    \/ \E f \in EntryForms, fd, fa \in BOOLEAN : SubmitEntry(f.twi, f.english, fd, fa)
    \/ \E k \in 1..MaxUsers, fu, fd, f1, f2 \in BOOLEAN : DeleteUser(k, fu, fd, f1, f2)
    \/ \E k \in 1..MaxEntries, fu, fd, f1 \in BOOLEAN : DeleteContributions(k, fu, fd, f1)
    \/ \E f \in BOOLEAN : DeleteNextRow(f)

SpecWrites == InitDataset /\ [][NextWrites]_vars

\* the administrator's deletes, other instances writing to the dataset sheet
NextLive ==
    \/ Login(padADMIN, pin1345, FALSE)
    \/ \E fu, fd \in BOOLEAN : PageRun(fu, fd)
    \/ \E k \in 1..MaxUsers, fu, fd, f1, f2 \in BOOLEAN : DeleteUser(k, fu, fd, f1, f2)
    \/ \E k \in 1..MaxEntries, fu, fd, f1 \in BOOLEAN : DeleteContributions(k, fu, fd, f1)
    \/ \E f \in BOOLEAN : DeleteNextRow(f)
    \/ \E row \in OtherEntries : OtherAppendEntry(row)
    \/ \E i \in 1..MaxEntries : OtherDeleteEntry(i)

\* a step of the loop of delete_contributions_by_username: DeleteNextRow is the
\* only action that leaves op = "delete_contributions" from a state in the loop
LoopStep == dc.pc = "deleting" /\ last'.op = "delete_contributions"

\* the loop of a started bulk delete goes on: nothing in it waits for anything
\* but time.sleep(0.5).  This is WF_vars(\E f \in BOOLEAN : DeleteNextRow(f))
\* written out, DeleteNextRow being enabled exactly when dc.pc = "deleting".
LoopGoesOn == []<>(dc.pc # "deleting") \/ []<><<LoopStep>>_vars

SpecLive == InitDataset /\ [][NextLive]_vars /\ LoopGoesOn

----------------------------------------------------------------------------
(* Properties *)

Reads == {last.reads[i] : i \in 1..Len(last.reads)}
Calls == {last.calls[i] : i \in 1..Len(last.calls)}
Limits == {last.limits[i] : i \in 1..Len(last.limits)}

\* C1: a cached read (get_users_data, get_dataset_data) made within the ttl
\* window of a fetch, with no write operation of this process on the collection
\* since, returns the snapshot of that fetch, calls the remote store not at all
\* and is not delayed by the rate limiter, whatever the remote table now holds.
C1_ReadInWindowIsServedFromCache ==
    \A r \in Reads : r.in_window => ~r.remote /\ r.slept = 0 /\ r.same_as_first

\* a read served in the window although another instance has changed the table
C1_Witness ==
    \E r \in Reads : /\ r.in_window /\ r.first_fetched /\ ~r.is_current
                     /\ ~r.remote /\ r.same_as_first

C3_StartsAreSpaced ==
    \A l \in Limits : l.gap >= TIME_WINDOW

\* a call that came too early and was put to sleep
C3_Witness ==
    \E l \in Limits : l.slept > 0 /\ l.gap = TIME_WINDOW

\* C4, as claimed: any two outbound calls of this process to the remote store
\* are at least time_window apart.
C4_AnyTwoCallsAreSpaced ==
    \A c \in Calls : c.gap >= TIME_WINDOW

BulkDelete == "delete_contributions_by_username"

\* C4, amended: the limit is per guarded function.  Every outbound call is made
\* in a guarded body that started at least time_window after the previous body
\* of the same function, and a delete_rows of a bulk delete that is not its first
\* comes at least the 0.5 s sleep after the one before; nothing more spaces the
\* calls of different functions, or those inside one body.
C4_CallsAreSpacedPerFunction ==
    \A c \in Calls :
        /\ c.body_gap >= TIME_WINDOW
        /\ (c.api = "delete_rows" /\ c.fn = BulkDelete /\ Len(last.info.issued) >= 2)
               => c.gap >= DELETE_SLEEP

\* the second delete_rows of a bulk delete, half a second after the first
C4_Witness ==
    /\ last.op = "delete_contributions"
    /\ Len(last.info.issued) >= 2
    /\ \E c \in Calls : c.api = "delete_rows" /\ c.gap = DELETE_SLEEP
                        /\ c.gap < TIME_WINDOW

\* the rows of a table not owned by username (ignoring case), in their order
RECURSIVE RowsOfOthers(_, _)
RowsOfOthers(rows, username) ==
    IF rows = <<>> THEN <<>>
    ELSE (IF lower(Head(rows).username) = lower(username) THEN <<>> ELSE <<Head(rows)>>)
         \o RowsOfOthers(Tail(rows), username)

OwnedRows(rows, username) ==
    {i + 1 : i \in {j \in 1..Len(rows) : lower(rows[j].username) = lower(username)}}

Descending(s) == \A i \in 1..(Len(s) - 1) : s[i] > s[i + 1]

BulkDeleteReturned ==
    last.op = "delete_contributions" /\ last.msg \in {"contrib_deleted", "contrib_none"}

\* C5: when no other writer changes the dataset sheet meanwhile and no remote
\* call fails, delete_contributions_by_username(u) deletes sheet rows in strictly
\* descending index, exactly the rows owned by u ignoring case (first data row =
\* row 2), leaves the other rows in their order, and returns the number of rows
\* removed: 0, with no error, when no row matches.
C5_BulkDeleteRemovesExactlyTheOwnedRows ==
    (BulkDeleteReturned /\ ~last.info.raised /\ ~last.info.interfered) =>
        /\ Descending(last.info.issued)
        /\ {last.info.issued[i] : i \in 1..Len(last.info.issued)}
               = OwnedRows(last.info.original, last.info.username)
        /\ datasetTable = RowsOfOthers(last.info.original, last.info.username)
        /\ last.info.count = Cardinality(OwnedRows(last.info.original, last.info.username))
        /\ last.info.count = Len(last.info.original) - Len(datasetTable)
        /\ (last.msg = "contrib_none") = (last.info.count = 0)

\* two rows of one user, a row of another between them, deleted bottom to top
C5_Witness ==
    /\ BulkDeleteReturned /\ ~last.info.raised /\ ~last.info.interfered
    /\ last.info.count = 2
    /\ last.info.issued = <<4, 2>>
    /\ Len(datasetTable) = 1

FormIsValid(info) ==
    /\ info.name # <<>> /\ info.username # <<>> /\ info.password # <<>>
    /\ info.password = info.repassword
    /\ Len(info.password) >= MIN_PASSWORD

\* C6, as claimed: a registration (its fields filled in, its passwords equal and
\* long enough) whose username equals, ignoring case, that of a row now in the
\* remote users sheet is rejected as a duplicate and appends no row, whatever the
\* cache holds and whether or not the read of the sheet succeeds.
C6_DuplicateUsernameIsRejected ==
    (last.op = "register" /\ FormIsValid(last.info) /\ last.info.in_remote) =>
        /\ last.msg = "exists"
        /\ \A c \in Calls : c.api # "append_row"

LoginByTable == last.op = "login" /\ last.msg \notin {"enter_both", "admin_login"}

\* the records a login read that have the username (ignoring case) and the password
Matching(info) ==
    {i \in 1..Len(info.users) :
        /\ lower(info.users[i].username) = lower(info.username)
        /\ info.users[i].password = info.password}

\* C7: a login with a username and a password (as the form takes them, trimmed
\* and not empty, and not the administrator's pair) succeeds exactly when a user
\* record read by get_users_data has that username ignoring case and exactly that
\* password; it then sets logged_in, the stored username and is_admin = false.
\* Any other pair gets the wrong-credentials message and leaves the session as it
\* was, not logged in.  A user who has just registered logs in with the
\* registered credentials (the read of the users sheet not failing).
C7_LoginMatchesUserRecords ==
    LoginByTable =>
        /\ (last.msg = "login_ok") = (Matching(last.info) # {})
        /\ last.msg = "login_ok" =>
               /\ rerun
               /\ \E i \in Matching(last.info) :
                      session = [logged_in |-> TRUE,
                                 username |-> last.info.users[i].username,
                                 is_admin |-> FALSE]
        /\ last.msg # "login_ok" =>
               /\ last.msg = "wrong_login"
               /\ session = last.info.before
               /\ ~session.logged_in
        /\ (last.info.after_register /\ \A r \in Reads : r.ok) => last.msg = "login_ok"

\* a login right after the registration, the username typed in another case
\* than the trimmed one stored
C7_Witness ==
    /\ LoginByTable /\ last.msg = "login_ok"
    /\ last.info.after_register
    /\ session.username = AMA /\ ~session.is_admin

SamePair(row, info) ==
    /\ lower(strip(row.ewe)) = lower(strip(info.twi))
    /\ lower(strip(row.english)) = lower(strip(info.english))

\* the rows of the dataset the page read that hold the submitted pair
PairRows(info) == {i \in 1..Len(info.dataset) : SamePair(info.dataset[i], info)}

AppendCalls == {i \in 1..Len(last.calls) : last.calls[i].api = "append_row"}

\* C8: a submission (both texts filled in) whose source and English texts equal,
\* trimmed and ignoring case, the fields 'ewe' and 'english' of a row of the
\* dataset owned by the same username ignoring case is rejected and appends no
\* row; otherwise, also when another user owns such a row, it is accepted: one
\* append_row is called and, it succeeding, exactly the trimmed row is appended.
C8_DuplicateEntryIsPerUser ==
    (last.op = "submit" /\ last.msg # "fill_both") =>
        LET mine == {i \in PairRows(last.info) :
                        lower(last.info.dataset[i].username) = lower(last.info.username)}
            row == EntryRow(today, strip(last.info.twi), strip(last.info.english),
                            last.info.username)
        IN  /\ mine # {} =>
                   /\ last.msg = "dup_entry"
                   /\ AppendCalls = {}
                   /\ datasetTable = last.info.before
            /\ mine = {} =>
                   /\ Cardinality(AppendCalls) = 1
                   /\ last.msg \in {"submitted", "submit_failed"}
                   /\ last.msg = "submitted" => datasetTable = Append(last.info.before, row)
                   /\ last.msg = "submit_failed" => datasetTable = last.info.before

\* the pair another user has submitted is accepted and appended
C8_Witness ==
    /\ last.op = "submit" /\ last.msg = "submitted"
    /\ PairRows(last.info) # {}
    /\ Len(datasetTable) = Len(last.info.before) + 1

ValidationFailures ==
    {"fill_fields", "mismatch", "too_short", "exists", "fill_both", "dup_entry", "enter_both"}

HandlerCalls == {c \in Calls : c.phase = "handler"}

\* C9, as claimed: every validation failure is decided with no remote call in the
\* handler and leaves the caches as they were.
C9_ValidationCallsNothing ==
    last.msg \in ValidationFailures => HandlerCalls = {} /\ cache = last.h0

\* the forms that fail a check made on the fields alone
FieldsFail ==
    \/ last.op = "register" /\ ~FormIsValid(last.info)
    \/ last.op = "login" /\ (last.info.username = <<>> \/ last.info.password = <<>>)
    \/ last.op = "submit" /\ (strip(last.info.twi) = <<>> \/ strip(last.info.english) = <<>>)

\* C9, amended: an empty required field, a password mismatch, a password shorter
\* than 4 characters and an empty login field are rejected with no remote call in
\* the handler; a duplicate entry is decided on the dataset the page has read,
\* with no remote call in the handler; a duplicate username is decided on
\* get_users_data(), which on a cache miss makes one rate-limited remote read of
\* the users sheet and caches it, and makes no write.  All of them leave the
\* remote tables and the session unchanged, and all but the duplicate username
\* leave the caches unchanged.
C9_ValidationWritesNothing ==
    [][LET failed == last'.msg \in ValidationFailures
           calls == {last'.calls[i] : i \in 1..Len(last'.calls)}
           handler == {c \in calls : c.phase = "handler"}
       IN  /\ FieldsFail' => failed /\ last'.msg # "exists"
           /\ failed =>
                  /\ usersTable' = usersTable /\ datasetTable' = datasetTable
                  /\ session' = session
                  /\ IF last'.msg = "exists"
                     THEN /\ Cardinality(handler) <= 1
                          /\ \A c \in handler :
                                 c.api = "get_all_records" /\ c.sheet = "users"
                          /\ (handler = {}) = (last'.h0["users"].valid)
                     ELSE handler = {} /\ cache' = last'.h0]_vars

\* a duplicate username found by a remote read of the users sheet
C9_Witness ==
    /\ last.op = "register" /\ last.msg = "exists"
    /\ \E c \in HandlerCalls : c.api = "get_all_records" /\ c.ok
    /\ cache # last.h0

AdminCredentials(info) == lower(info.username) = admin /\ info.password = pin1345

\* C10: a login with username 'admin' in any case and password '1345' sets
\* logged_in = true, username = 'admin', is_admin = true with no read of the
\* users table, whatever that table holds; and no other step sets is_admin.
C10_OnlyTheAdminLoginSetsAdmin ==
    [][/\ (last'.op = "login" /\ AdminCredentials(last'.info)) =>
              /\ session' = [logged_in |-> TRUE, username |-> admin, is_admin |-> TRUE]
              /\ last'.reads = <<>> /\ last'.calls = <<>>
              /\ cache' = cache /\ usersTable' = usersTable
       /\ (session'.is_admin /\ ~session.is_admin) =>
              last'.op = "login" /\ AdminCredentials(last'.info)]_vars

\* the administrator logs in, ADMIN typed in capitals, where a user named admin
\* is registered
C10_Witness ==
    /\ last.op = "login" /\ last.msg = "admin_login"
    /\ last.info.username # admin
    /\ session.is_admin
    /\ \E i \in 1..Len(usersTable) : lower(usersTable[i].username) = admin

\* C11, as claimed: a cached read is served from the cache only when the stored
\* value comes from a successful remote fetch; after a fetch that failed and
\* returned the empty collection, the next call reads the remote store again.
C11_FailedFetchIsNotCached ==
    \A r \in Reads : ~r.remote => r.entry_fetched

\* the cache entry now is the one the handler found, only older, or the one a
\* cached read of the handler stored before the write operation was called
Untouched(now, before, fetches) ==
    now.valid => \/ before.valid /\ now.value = before.value /\ now.age >= before.age
                 \/ fetches # {}

\* C12, as claimed: when a write operation fails (add_user_data,
\* add_dataset_entry or delete_user_by_username returning False,
\* delete_contributions_by_username returning 0 from its except branch), the
\* caches are left untouched and the operation has changed nothing in the remote
\* table, so that a cached snapshot misses no write of this process; also when
\* the bulk delete fails on a delete_rows after earlier ones succeeded.
C12_FailedWriteLeavesCacheConsistent ==
    [][LET failed == last'.msg \in {"reg_failed", "submit_failed", "delete_failed"}
           raised == last'.op = "delete_contributions" /\ last'.info.raised
       IN  (failed \/ raised) =>
               /\ \A c \in Colls :
                      Untouched(cache'[c], last'.h0[c],
                                {i \in 1..Len(last'.reads) :
                                    /\ last'.reads[i].coll = c /\ last'.reads[i].remote
                                    /\ last'.reads[i].phase = "handler"})
               /\ (failed \/ last'.info.issued = <<>>) =>
                      usersTable' = usersTable /\ datasetTable' = datasetTable
               /\ (raised /\ last'.info.issued # <<>> /\ ~last'.info.interfered) =>
                      datasetTable' = last'.info.original]_vars

\* no two rows have usernames equal ignoring case
UniqueUsernames(rows) ==
    \A i, j \in 1..Len(rows) : lower(rows[i].username) = lower(rows[j].username) => i = j

\* C13, as claimed: usernames in the users sheet are unique ignoring case, and
\* every registration (cached read, check, append) keeps them so, whatever other
\* instances have registered meanwhile and whether or not its read fails.
C13_RegistrationKeepsUsernamesUnique ==
    [][(last'.op = "register" /\ UniqueUsernames(usersTable))
           => UniqueUsernames(usersTable')]_vars

\* C14, as claimed: after delete_user_by_username(u) returned True the users
\* sheet holds no row whose username equals u ignoring case; it returns False
\* and deletes nothing when no row matches.
C14_DeleteUserRemovesEveryMatch ==
    last.op = "delete_user" =>
        /\ last.msg = "user_deleted" => ~Matches(usersTable, last.info.username)
        /\ ~Matches(last.info.before, last.info.username) =>
               last.msg = "delete_failed" /\ usersTable = last.info.before

\* the rows a bulk delete removed that its username does not own
WrongRows(info) ==
    {i \in 1..Len(info.removed) : lower(info.removed[i].username) # lower(info.username)}

\* C15: delete_contributions_by_username(u) holds no lock between its fetch and
\* its last delete_rows.  The row positions it computed stay valid when no other
\* writer changes the sheet in that window: it removes a row whose username does
\* not match u only if another writer deleted a row in the window, and that bad
\* state is reachable.
C15_WrongRowOnlyAfterOthersDelete ==
    last.op = "delete_contributions" =>
        /\ WrongRows(last.info) # {} => last.info.others_deleted
        /\ ~last.info.interfered =>
               /\ ~last.info.raised => Len(last.info.removed) = Len(last.info.issued)
               /\ \A i \in 1..Len(last.info.removed) :
                      /\ last.info.issued[i] - 1 \in 1..Len(last.info.original)
                      /\ last.info.removed[i] = last.info.original[last.info.issued[i] - 1]

\* another writer deleted a row above after the fetch: the delete_rows removes
\* the row of another user that moved into the position
C15_Witness ==
    /\ last.op = "delete_contributions"
    /\ last.info.others_deleted
    /\ WrongRows(last.info) # {}

\* the longest a handler sleeps: the limiter's wait, a deletion's delay and the
\* pause after a success
HandlerSleep == TIME_WINDOW + DELETE_SLEEP + SUCCESS_SLEEP

WriteOps == {"register", "submit", "delete_user", "delete_contributions"}

\* C16: delete_user_by_username leaves the dataset sheet and the dataset cache as
\* they are (the deleted user's entries stay); delete_contributions_by_username
\* and add_dataset_entry (and add_user_data) leave the other sheet and its cache
\* as they are, the cache entry only growing older; a write that succeeds
\* invalidates the cache of the collection it writes.
C16_WritesTouchOnlyTheirCollection ==
    [][LET op == last'.op
           own == IF op \in {"register", "delete_user"} THEN "users" ELSE "dataset"
           other == IF own = "users" THEN "dataset" ELSE "users"
           succeeded ==
               \/ last'.msg \in {"registered", "submitted", "user_deleted"}
               \/ /\ op = "delete_contributions" /\ ~last'.info.raised
                  /\ last'.msg \in {"contrib_deleted", "contrib_none"}
       IN  op \in WriteOps =>
               /\ IF own = "users" THEN datasetTable' = datasetTable
                                   ELSE usersTable' = usersTable
               /\ cache'[other] \in {expire(last'.h0[other], other, d) : d \in 0..HandlerSleep}
               /\ succeeded => ~cache'[own].valid]_vars

\* a user is deleted: the users cache is invalidated, the dataset cache is kept,
\* and the entries of the deleted user are still in the dataset sheet
C16_Witness ==
    /\ last.op = "delete_user" /\ last.msg = "user_deleted"
    /\ ~cache["users"].valid
    /\ cache["dataset"].valid /\ cache["dataset"].value = datasetTable
    /\ \E i \in 1..Len(datasetTable) :
           lower(datasetTable[i].username) = lower(last.info.username)

\* C17: in every state of a session, logged_in = false implies username = '' and
\* is_admin = false, and is_admin = true implies logged_in = true and username =
\* 'admin'; the session starts as (false, '', false) and a Logout, from the admin
\* page or the user page, resets it to that.
C17_SessionFieldsAgree ==
    /\ ~session.logged_in => session.username = <<>> /\ ~session.is_admin
    /\ session.is_admin => session.logged_in /\ session.username = admin
    /\ last.op \in {"init", "logout"} =>
           session = [logged_in |-> FALSE, username |-> <<>>, is_admin |-> FALSE]

\* the administrator has logged out
C17_Witness ==
    /\ last.op = "logout" /\ last.msg = "admin"
    /\ ~session.logged_in /\ ~session.is_admin /\ session.username = <<>>

\* C18: when the other writers only append to the dataset sheet between the
\* fetch and the last delete_rows of delete_contributions_by_username(u), every
\* row the operation removes has a username equal to u ignoring case, and when
\* it returns (no call having failed) the sheet holds the rows of the others in
\* their order followed by the rows appended meanwhile: the rows of u among
\* these remain although the operation reports the rows it fetched as deleted.
C18_AppendersOnlyLeaveLateRows ==
    (last.op = "delete_contributions" /\ ~last.info.others_deleted) =>
        /\ WrongRows(last.info) = {}
        /\ (BulkDeleteReturned /\ ~last.info.raised) =>
               /\ datasetTable = RowsOfOthers(last.info.original, last.info.username)
                                     \o last.info.appended
               /\ last.info.count = Len(last.info.removed)
               /\ last.info.count
                      = Cardinality(OwnedRows(last.info.original, last.info.username))

\* a row of u appended by another instance after the fetch is still in the sheet
\* when the bulk delete reports its rows deleted
C18_Witness ==
    /\ BulkDeleteReturned /\ ~last.info.raised /\ ~last.info.others_deleted
    /\ last.msg = "contrib_deleted"
    /\ \E i \in 1..Len(last.info.appended) :
           lower(last.info.appended[i].username) = lower(last.info.username)
    /\ Matches(datasetTable, last.info.username)

\* the remote call a guarded body makes first
FirstCall(fn) ==
    IF fn \in {"add_user_data", "add_dataset_entry"} THEN "append_row" ELSE "get_all_records"

\* C19: the rate limiter only delays: a call of a rate-limited function waits at
\* most time_window and then runs its body once; and every data-access operation
\* returns: a bulk delete that has fetched its rows goes through its loop and
\* returns its count, or 0 when a delete_rows raises, and never stays in the loop.
C19_LimiterDelaysAndOperationsReturn ==
    /\ [](\A l \in Limits : l.slept \in 0..TIME_WINDOW)
    /\ [](\A fn \in Funcs :
             Cardinality({i \in 1..Len(last.limits) : last.limits[i].fn = fn})
                 = Cardinality({i \in 1..Len(last.calls) :
                                   /\ last.calls[i].fn = fn
                                   /\ last.calls[i].api = FirstCall(fn)}))
    /\ (dc.pc = "deleting") ~> (dc.pc = "idle" /\ BulkDeleteReturned)

\* a bulk delete whose second delete_rows raised has returned 0
C19_Witness ==
    /\ BulkDeleteReturned /\ dc.pc = "idle"
    /\ last.info.raised /\ Len(last.info.issued) = 2
    /\ last.info.count = 0 /\ last.msg = "contrib_none"

====
